---- MODULE Spec2Model ----
(***************************************************************************)
(* Role/permission authorization core of CQTRAILSADMINCORE.                *)
(*                                                                         *)
(*   - RolesPermisosMiddleware.dispatch: the gate in front of every route  *)
(*     (src/rolespermisosmiddleware/middleware.py).                        *)
(*   - RolesPermisosMiddleware.check_permission, PERMISOS_CACHE and        *)
(*     clear_permissions_cache: the cached permission lookup.              *)
(*   - the administrative handlers that write Roles, Permisos and          *)
(*     RolesPermisos (src/controllers/*.py).                               *)
(*                                                                         *)
(* Names are sequences of one-character strings so that lower(),           *)
(* endswith() and slicing are computed as the code computes them.          *)
(***************************************************************************)
EXTENDS Integers, Sequences, FiniteSets, TLC

VARIABLES
    Roles,            \* table miguel."Roles": set of [IdRol, NombreRol]
    Permisos,         \* table miguel."Permisos": set of [IdPermiso, NombrePermiso]
    RolesPermisos,    \* table miguel."RolesPermisos": set of rows, key (IdRol, IdPermiso)
    PERMISOS_CACHE,   \* module-level dict: role_name -> controller_name -> flags
    admin,            \* the administrative handler in flight (one worker thread)
    nops,             \* administrative handlers started so far
    resp,             \* the gate's answer to the request being served
    look,             \* the check_permission call in flight, per caller
    fresh,            \* history: no cache write since the last clear_permissions_cache()
    now,              \* history: time, in ticks
    cachedAt,         \* history: insertion time of each cache entry
    revoked,          \* history: flags revoked by a write that committed and invalidated
    permisoSeq,       \* last value of the Permisos.IdPermiso identity column
    Usuarios,         \* table miguel."Usuarios": set of [IdUsuario, Activo]
    seg,              \* input of the controller-name resolver
    out,              \* its two results
    pair,             \* a singular and a plural path resolved against one catalog
    rolSeq,           \* last value of the Roles.IdRol identity column
    upsert,           \* the create_or_update_rol_permiso calls in flight, per worker
    issued,           \* the role claims of the tokens issued to one user
    Reservaciones,    \* table miguel."Reservaciones"
    VehiculosReservaciones,  \* table miguel."VehiculosReservaciones"
    reply             \* the answer of the last reservation handler

vars == <<Roles, Permisos, RolesPermisos, PERMISOS_CACHE, admin, nops, resp, look,
          fresh, now, cachedAt, revoked, permisoSeq, Usuarios, seg, out, pair,
          rolSeq, upsert, issued, Reservaciones, VehiculosReservaciones, reply>>

dbVars == <<Roles, Permisos, RolesPermisos, permisoSeq, rolSeq, Usuarios>>
resolverVars == <<seg, out, pair>>
sideVars == <<upsert, issued, Reservaciones, VehiculosReservaciones, reply>>
histVars == <<fresh, now, cachedAt, revoked>>

(***************************************************************************)
(* Bounds of the model.                                                    *)
(***************************************************************************)
MaxOps == 2        \* administrative handlers run in one behaviour
MaxLen == 3        \* longest segment given to the controller-name resolver
MaxClock == 3      \* last tick of the clock
MaxPermisos == 2   \* IdPermiso values handed out by the identity column
TTL == 1           \* lifetime of a cached decision in ticks (the design's 5 minutes)

(***************************************************************************)
(* Strings.                                                                *)
(***************************************************************************)
Alphabet == {"v", "e", "s", "S"}

LowerChar(c) == IF c = "S" THEN "s" ELSE c

\* str.lower()
Lower(s) == [i \in 1..Len(s) |-> LowerChar(s[i])]

\* str.endswith(suffix)
EndsWith(s, suffix) ==
    /\ Len(s) >= Len(suffix)
    /\ SubSeq(s, Len(s) - Len(suffix) + 1, Len(s)) = suffix

\* s[:-n]
DropLast(s, n) == IF Len(s) >= n THEN SubSeq(s, 1, Len(s) - n) ELSE << >>

StrsUpTo(n) == UNION {[1..k -> Alphabet] : k \in 0..n}

\* Role names are compared whole; only their case matters.
RoleNames ==
    {"Admin", "admin", "Empleado", "empleado", "Invitado", "invitado",
     "Administrador", "administrador", "Usuario", "usuario"}

LowerRole(r) ==
    CASE r = "Admin" -> "admin"
      [] r = "Empleado" -> "empleado"
      [] r = "Invitado" -> "invitado"
      [] r = "Administrador" -> "administrador"
      [] r = "Usuario" -> "usuario"
      [] OTHER -> r

(***************************************************************************)
(* Controller-name resolver: the singular/plural variants.                 *)
(***************************************************************************)
\* dispatch, on controller_name = path_parts[0].lower()
DispatchVariants(controller_name) ==
    IF EndsWith(controller_name, <<"e", "s">>)
    THEN <<controller_name, DropLast(controller_name, 2)>>
    ELSE IF EndsWith(controller_name, <<"s">>)
    THEN <<controller_name, DropLast(controller_name, 1)>>
    ELSE <<controller_name, controller_name \o <<"s">>, controller_name \o <<"e", "s">> >>

\* Mutant: the "s" suffix is tested before the "es" suffix.
CheckVariants_SBeforeEs(controller_name) ==
    IF EndsWith(controller_name, <<"s">>)
    THEN <<controller_name, DropLast(controller_name, 1)>>
    ELSE IF EndsWith(controller_name, <<"e", "s">>)
    THEN <<controller_name, DropLast(controller_name, 2)>>
    ELSE <<controller_name, controller_name \o <<"s">>, controller_name \o <<"e", "s">> >>

\* check_permission, on its controller_name argument as given
CheckVariants(controller_name) ==
    IF EndsWith(controller_name, <<"e", "s">>)
    THEN <<controller_name, DropLast(controller_name, 2)>>
    ELSE IF EndsWith(controller_name, <<"s">>)
    THEN <<controller_name, DropLast(controller_name, 1)>>
    ELSE <<controller_name, controller_name \o <<"s">>, controller_name \o <<"e", "s">> >>

(***************************************************************************)
(* The permission matrix.                                                  *)
(***************************************************************************)
Columns == {"Crear", "Editar", "Leer", "Eliminar"}

Methods == {"GET", "POST", "PUT", "PATCH", "DELETE", "OPTIONS", "HEAD"}

\* Mutant: GET reads the Crear column.
HTTP_METHOD_TO_PERMISSION_GetCrear(method) ==
    CASE method = "GET" -> "Crear"
      [] method = "POST" -> "Crear"
      [] method = "PUT" -> "Editar"
      [] method = "PATCH" -> "Editar"
      [] method = "DELETE" -> "Eliminar"
      [] OTHER -> "None"

\* Mutant: PATCH reads the Crear column, as POST does.
HTTP_METHOD_TO_PERMISSION_PatchCrear(method) ==
    CASE method = "GET" -> "Leer"
      [] method = "POST" -> "Crear"
      [] method = "PUT" -> "Editar"
      [] method = "PATCH" -> "Crear"
      [] method = "DELETE" -> "Eliminar"
      [] OTHER -> "None"

\* HTTP_METHOD_TO_PERMISSION.get(method); "None" when the method has no entry
HTTP_METHOD_TO_PERMISSION(method) ==
    CASE method = "GET" -> "Leer"
      [] method = "POST" -> "Crear"
      [] method = "PUT" -> "Editar"
      [] method = "PATCH" -> "Editar"
      [] method = "DELETE" -> "Eliminar"
      [] OTHER -> "None"

Flags(c, e, l, d) == [Crear |-> c, Editar |-> e, Leer |-> l, Eliminar |-> d]

NoFlags == Flags(FALSE, FALSE, FALSE, FALSE)

Row(rid, pid, f) ==
    [IdRol |-> rid, IdPermiso |-> pid, Crear |-> f.Crear, Editar |-> f.Editar,
     Leer |-> f.Leer, Eliminar |-> f.Eliminar]

RowFlags(row) == Flags(row.Crear, row.Editar, row.Leer, row.Eliminar)

\* SELECT ... FROM "RolesPermisos" WHERE "IdRol" = :rol_id AND "IdPermiso" = :permiso_id
RowsOf(rid, pid) == {row \in RolesPermisos : row.IdRol = rid /\ row.IdPermiso = pid}

PermisoNames == {<<"v">>, <<"v", "s">>, <<"v", "e", "s">>}

\* Flag vectors the administrative requests of the model carry.
BodyFlags ==
    {NoFlags, Flags(TRUE, FALSE, FALSE, FALSE), Flags(FALSE, TRUE, FALSE, FALSE),
     Flags(FALSE, FALSE, TRUE, FALSE), Flags(FALSE, FALSE, FALSE, TRUE)}

(***************************************************************************)
(* The gate: RolesPermisosMiddleware.dispatch.                             *)
(***************************************************************************)
SegAuth == <<"a", "u", "t", "h">>
SegLogin == <<"l", "o", "g", "i", "n">>
SegRegister == <<"r", "e", "g", "i", "s", "t", "e", "r">>
SegDocs == <<"d", "o", "c", "s">>
SegRedoc == <<"r", "e", "d", "o", "c">>
SegOpenapi == <<"o", "p", "e", "n", "a", "p", "i", ".", "j", "s", "o", "n">>
SegFavicon == <<"f", "a", "v", "i", "c", "o", "n", ".", "i", "c", "o">>

\* re.match of a one-segment pattern whose "." (at position dot) matches any character
MatchesDotted(s, pattern, dot) ==
    /\ Len(s) = Len(pattern)
    /\ \A i \in 1..Len(s) : i = dot \/ s[i] = pattern[i]

\* any(re.match(pattern, path) for pattern in PUBLIC_PATHS); a path is its segments
IsPublic(path) ==
    \/ path = <<SegDocs>>
    \/ Len(path) >= 2 /\ path[1] = SegDocs
    \/ path = <<SegRedoc>>
    \/ Len(path) = 1 /\ MatchesDotted(path[1], SegOpenapi, 8)
    \/ path = << >>
    \/ path = <<SegAuth, SegLogin>>
    \/ path = <<SegAuth, SegRegister>>
    \/ Len(path) = 1 /\ MatchesDotted(path[1], SegFavicon, 8)

\* an exp claim later than every tick of the clock
NeverExpires == MaxClock + 1

\* The Authorization header: none (or not a Bearer one), a token whose signature or
\* required claims fail, and a signed token with its exp, user_id and role claims.
NoToken == [kind |-> "none", user_id |-> 0, role |-> "", exp |-> NeverExpires]
BadToken == [kind |-> "invalid", user_id |-> 0, role |-> "", exp |-> NeverExpires]
ValidToken(u, r) == [kind |-> "valid", user_id |-> u, role |-> r, exp |-> NeverExpires]
ExpiredToken(u, r) == [kind |-> "valid", user_id |-> u, role |-> r, exp |-> now]

\* Mutant: verify_exp is off.
decode_token_raises_NoExp(t) == t.kind # "valid"

\* decode_token(token) raises: bad signature or claims, or verify_exp finds exp <= now
decode_token_raises(t) == t.kind # "valid" \/ t.exp <= now

TokenRoles == {"Admin", "empleado", "Invitado"}

\* tokens that carry a user and a role, and the headers that do not
GoodTokens == {ValidToken(1, r) : r \in TokenRoles}
PoorTokens ==
    {NoToken, BadToken, ValidToken(0, "Empleado"), ValidToken(1, ""),
     ExpiredToken(1, "empleado"), ExpiredToken(1, "Admin")}

Paths ==
    {<<SegAuth, SegLogin>>, << <<"v">> >>, << <<"v", "s">>, <<"5">> >>,
     << <<"v", "e", "s">> >>, << <<"v", "S">> >>}

\* the allow-listed paths besides /auth/login
PublicPaths ==
    {<< >>, <<SegDocs>>, <<SegDocs, <<"v">> >>, <<SegRedoc>>, <<SegOpenapi>>,
     <<SegAuth, SegRegister>>, <<SegFavicon>>}

Requests ==
    [path : Paths, method : Methods, token : GoodTokens]
        \cup [path : {<<SegAuth, SegLogin>>, << <<"v", "s">>, <<"5">> >>},
              method : {"GET", "OPTIONS"}, token : PoorTokens]
        \cup [path : PublicPaths, method : {"GET", "DELETE"},
              token : {NoToken, ValidToken(1, "Invitado")}]

Forward(rid, pid) ==
    [forwarded |-> TRUE, status |-> 0, why |-> "call_next", role_id |-> rid,
     permission_id |-> pid]

Deny(code, reason, rid, pid) ==
    [forwarded |-> FALSE, status |-> code, why |-> reason, role_id |-> rid,
     permission_id |-> pid]

\* SELECT "IdRol" FROM "Roles" WHERE LOWER("NombreRol") = LOWER(:role_name)
RoleIdsNamed(role_name) ==
    {r.IdRol : r \in {x \in Roles : LowerRole(x.NombreRol) = LowerRole(role_name)}}

\* SELECT "IdPermiso" FROM "Permisos" WHERE LOWER("NombrePermiso") = LOWER(:controller_name)
PermisoIdsNamed(name) ==
    {p.IdPermiso : p \in {x \in Permisos : Lower(x.NombrePermiso) = Lower(name)}}

\* Mutant: the loop does not break, so the last variant with a row is kept.
FirstMatch_Last(variants) ==
    LET hits == {i \in 1..Len(variants) : PermisoIdsNamed(variants[i]) # {}}
    IN  IF hits = {} THEN 0 ELSE CHOOSE i \in hits : \A j \in hits : i >= j

\* index of the first variant with a Permisos row, 0 when there is none
FirstMatch(variants) ==
    LET hits == {i \in 1..Len(variants) : PermisoIdsNamed(variants[i]) # {}}
    IN  IF hits = {} THEN 0 ELSE CHOOSE i \in hits : \A j \in hits : i <= j

\* Mutant: the row's existence is enough; its flag is not read.
AccessOutcome_IgnoreFlag(method, rid, pid) ==
    IF HTTP_METHOD_TO_PERMISSION(method) = "None"
    THEN Deny(400, "unsupported_method", rid, pid)
    ELSE IF RowsOf(rid, pid) = {}
    THEN Deny(403, "no_row", rid, pid)
    ELSE Forward(rid, pid)

\* Mutant: a missing row is not a denial.
AccessOutcome_NoRowAllowed(method, rid, pid) ==
    LET permission_column == HTTP_METHOD_TO_PERMISSION(method)
    IN  IF permission_column = "None"
        THEN Deny(400, "unsupported_method", rid, pid)
        ELSE IF RowsOf(rid, pid) = {}
        THEN Forward(rid, pid)
        ELSE LET has_permission_row == CHOOSE row \in RowsOf(rid, pid) : TRUE
             IN  IF ~RowFlags(has_permission_row)[permission_column]
                 THEN Deny(403, "flag_false", rid, pid)
                 ELSE Forward(rid, pid)

\* step 3 of dispatch: the RolesPermisos row and the method's column
AccessOutcome(method, rid, pid) ==
    LET permission_column == HTTP_METHOD_TO_PERMISSION(method)
    IN  IF permission_column = "None"
        THEN Deny(400, "unsupported_method", rid, pid)
        ELSE IF RowsOf(rid, pid) = {}
        THEN Deny(403, "no_row", rid, pid)
        ELSE LET has_permission_row == CHOOSE row \in RowsOf(rid, pid) : TRUE
             IN  IF ~RowFlags(has_permission_row)[permission_column]
                 THEN Deny(403, "flag_false", rid, pid)
                 ELSE Forward(rid, pid)

\* Mutant: the Authorization header is checked before the public paths.
GateOutcomes_HeaderFirst(req) ==
    IF req.token.kind = "none" THEN {Deny(401, "no_bearer", 0, 0)}
    ELSE IF IsPublic(req.path) THEN {Forward(0, 0)}
    ELSE IF decode_token_raises(req.token) THEN {Deny(401, "decode_failed", 0, 0)}
    ELSE IF req.token.user_id = 0 \/ req.token.role = ""
    THEN {Deny(401, "missing_claims", 0, 0)}
    ELSE LET controller_name == Lower(req.path[1])
             controller_variants == DispatchVariants(controller_name)
             k == FirstMatch(controller_variants)
         IN  {Deny(500, "db_error", 0, 0)} \cup
             IF RoleIdsNamed(req.token.role) = {}
             THEN {Deny(403, "no_role", 0, 0)}
             ELSE IF k = 0
             THEN {Deny(403, "no_permiso", rid, 0) : rid \in RoleIdsNamed(req.token.role)}
             ELSE {AccessOutcome(req.method, rid, pid) :
                     rid \in RoleIdsNamed(req.token.role),
                     pid \in PermisoIdsNamed(controller_variants[k])}

\* Mutant: user_id and role of the payload are not checked before the role query.
GateOutcomes_ClaimsUnchecked(req) ==
    IF IsPublic(req.path) THEN {Forward(0, 0)}
    ELSE IF req.token.kind = "none" THEN {Deny(401, "no_bearer", 0, 0)}
    ELSE IF decode_token_raises(req.token) THEN {Deny(401, "decode_failed", 0, 0)}
    ELSE LET controller_name == Lower(req.path[1])
             controller_variants == DispatchVariants(controller_name)
             k == FirstMatch(controller_variants)
         IN  {Deny(500, "db_error", 0, 0)} \cup
             IF RoleIdsNamed(req.token.role) = {}
             THEN {Deny(403, "no_role", 0, 0)}
             ELSE IF k = 0
             THEN {Deny(403, "no_permiso", rid, 0) : rid \in RoleIdsNamed(req.token.role)}
             ELSE {AccessOutcome(req.method, rid, pid) :
                     rid \in RoleIdsNamed(req.token.role),
                     pid \in PermisoIdsNamed(controller_variants[k])}

\* Mutant: a role without a Roles row raises instead of returning 403.
GateOutcomes_NoRoleRaises(req) ==
    IF IsPublic(req.path) THEN {Forward(0, 0)}
    ELSE IF req.token.kind = "none" THEN {Deny(401, "no_bearer", 0, 0)}
    ELSE IF decode_token_raises(req.token) THEN {Deny(401, "decode_failed", 0, 0)}
    ELSE IF req.token.user_id = 0 \/ req.token.role = ""
    THEN {Deny(401, "missing_claims", 0, 0)}
    ELSE LET controller_name == Lower(req.path[1])
             controller_variants == DispatchVariants(controller_name)
             k == FirstMatch(controller_variants)
         IN  {Deny(500, "db_error", 0, 0)} \cup
             IF RoleIdsNamed(req.token.role) = {}
             THEN {Deny(500, "no_role", 0, 0)}
             ELSE IF k = 0
             THEN {Deny(403, "no_permiso", rid, 0) : rid \in RoleIdsNamed(req.token.role)}
             ELSE {AccessOutcome(req.method, rid, pid) :
                     rid \in RoleIdsNamed(req.token.role),
                     pid \in PermisoIdsNamed(controller_variants[k])}

\* Mutant: the except block lets the request through.
GateOutcomes_ErrorForwards(req) ==
    IF IsPublic(req.path) THEN {Forward(0, 0)}
    ELSE IF req.token.kind = "none" THEN {Deny(401, "no_bearer", 0, 0)}
    ELSE IF decode_token_raises(req.token) THEN {Deny(401, "decode_failed", 0, 0)}
    ELSE IF req.token.user_id = 0 \/ req.token.role = ""
    THEN {Deny(401, "missing_claims", 0, 0)}
    ELSE LET controller_name == Lower(req.path[1])
             controller_variants == DispatchVariants(controller_name)
             k == FirstMatch(controller_variants)
         IN  {[Deny(500, "db_error", 0, 0) EXCEPT !.forwarded = TRUE]} \cup
             IF RoleIdsNamed(req.token.role) = {}
             THEN {Deny(403, "no_role", 0, 0)}
             ELSE IF k = 0
             THEN {Deny(403, "no_permiso", rid, 0) : rid \in RoleIdsNamed(req.token.role)}
             ELSE {AccessOutcome(req.method, rid, pid) :
                     rid \in RoleIdsNamed(req.token.role),
                     pid \in PermisoIdsNamed(controller_variants[k])}

\* Every answer dispatch can give to req on the current tables. first() and scalar()
\* take whichever matching row the database returns first; any query may raise.
GateOutcomes(req) ==
    IF IsPublic(req.path) THEN {Forward(0, 0)}
    ELSE IF req.token.kind = "none" THEN {Deny(401, "no_bearer", 0, 0)}
    ELSE IF decode_token_raises(req.token) THEN {Deny(401, "decode_failed", 0, 0)}
    ELSE IF req.token.user_id = 0 \/ req.token.role = ""
    THEN {Deny(401, "missing_claims", 0, 0)}
    ELSE LET controller_name == Lower(req.path[1])
             controller_variants == DispatchVariants(controller_name)
             k == FirstMatch(controller_variants)
         IN  {Deny(500, "db_error", 0, 0)} \cup
             IF RoleIdsNamed(req.token.role) = {}
             THEN {Deny(403, "no_role", 0, 0)}
             ELSE IF k = 0
             THEN {Deny(403, "no_permiso", rid, 0) : rid \in RoleIdsNamed(req.token.role)}
             ELSE {AccessOutcome(req.method, rid, pid) :
                     rid \in RoleIdsNamed(req.token.role),
                     pid \in PermisoIdsNamed(controller_variants[k])}

NoResp ==
    [served |-> FALSE, req |-> [path |-> << >>, method |-> "", token |-> NoToken],
     out |-> Deny(0, "none", 0, 0), handled |-> "no"]

\* dispatch serves req
Dispatch(req) ==
    /\ resp = NoResp
    /\ \E o \in GateOutcomes(req) :
           resp' = [served |-> TRUE, req |-> req, out |-> o, handled |-> "no"]
    /\ UNCHANGED <<dbVars, PERMISOS_CACHE, admin, nops, look, histVars, resolverVars, sideVars>>

\* the answer leaves the middleware
Deliver ==
    /\ resp # NoResp
    /\ resp' = NoResp
    /\ UNCHANGED <<dbVars, PERMISOS_CACHE, admin, nops, look, histVars, resolverVars, sideVars>>

(***************************************************************************)
(* The routes behind the gate, and the handlers that end a user account.   *)
(***************************************************************************)
UserIds == {1, 2}

\* db.query(Usuarios).filter(Usuarios.IdUsuario == user_id, Usuarios.Activo == True)
ActiveUsers == {u.IdUsuario : u \in {x \in Usuarios : x.Activo}}

\* get_current_user raises 401: no credentials, decode_token raises, or no active user
get_current_user_raises(token) ==
    \/ token.kind = "none"
    \/ decode_token_raises(token)
    \/ token.user_id \notin ActiveUsers

\* call_next(request): the route runs.  depends_on_user tells whether the route
\* declares Depends(get_current_user): the routes of usuario_controller do, those of
\* permiso_controller do not.
Handle(depends_on_user) ==
    /\ resp.served
    /\ resp.out.forwarded
    /\ resp.handled = "no"
    /\ resp' = [resp EXCEPT !.handled =
                   IF depends_on_user /\ get_current_user_raises(resp.req.token)
                   THEN "401"
                   ELSE "ran"]
    /\ UNCHANGED <<dbVars, PERMISOS_CACHE, admin, nops, look, histVars, resolverVars, sideVars>>

UsersFrame ==
    UNCHANGED <<Roles, Permisos, RolesPermisos, permisoSeq, rolSeq, PERMISOS_CACHE, admin, nops,
                resp, look, histVars, resolverVars, sideVars>>

\* PATCH /usuarios/{usuario_id}/desactivar, called by current_user
desactivar_usuario(usuario_id, current_user) ==
    /\ current_user \in ActiveUsers
    /\ usuario_id # current_user
    /\ \E db_usuario \in Usuarios :
           /\ db_usuario.IdUsuario = usuario_id
           /\ db_usuario.Activo
           /\ Usuarios' = (Usuarios \ {db_usuario})
                              \cup {[db_usuario EXCEPT !.Activo = FALSE]}
    /\ UsersFrame

\* PATCH /usuarios/{usuario_id}/activar, called by current_user
activar_usuario(usuario_id, current_user) ==
    /\ current_user \in ActiveUsers
    /\ \E db_usuario \in Usuarios :
           /\ db_usuario.IdUsuario = usuario_id
           /\ ~db_usuario.Activo
           /\ Usuarios' = (Usuarios \ {db_usuario})
                              \cup {[db_usuario EXCEPT !.Activo = TRUE]}
    /\ UsersFrame

\* DELETE /usuarios/{usuario_id}, called by current_user
delete_usuario(usuario_id, current_user) ==
    /\ current_user \in ActiveUsers
    /\ usuario_id # current_user
    /\ \E db_usuario \in Usuarios :
           /\ db_usuario.IdUsuario = usuario_id
           /\ Usuarios' = Usuarios \ {db_usuario}
    /\ UsersFrame

\* C20: behind an otherwise valid, unexpired token whose user account has been
\* deactivated or removed, the handler of a non-public route never runs.
C20_DeactivatedNeverRuns ==
    [][(/\ resp.handled = "no"
        /\ resp'.handled = "ran"
        /\ ~IsPublic(resp.req.path))
           => resp.req.token.user_id \in ActiveUsers]_vars

(***************************************************************************)
(* The administrative handlers.  A handler runs its queries and commits in *)
(* one transaction; clear_permissions_cache(), where the handler calls it, *)
(* is a later step of the same worker thread, and the response a last one. *)
(***************************************************************************)
RoleIds == {r.IdRol : r \in Roles}
PermisoIds == {p.IdPermiso : p \in Permisos}
RolIdArgs == {1, 2, 3}
PermisoIdArgs == 1..MaxPermisos

Idle == [pc |-> "idle", op |-> "none", status |-> 0, wrote |-> FALSE, cleared |-> FALSE,
         revokes |-> {}]

CanStart == admin.pc \in {"idle", "responded"} /\ nops < MaxOps

\* the (IdRol, IdPermiso, column) flags that are TRUE in table a and FALSE in table b
Revocations(a, b) ==
    {t \in RolIdArgs \X PermisoIdArgs \X Columns :
        \E x \in a, y \in b :
            /\ x.IdRol = t[1] /\ x.IdPermiso = t[2] /\ RowFlags(x)[t[3]]
            /\ y.IdRol = t[1] /\ y.IdPermiso = t[2] /\ ~RowFlags(y)[t[3]]}

\* of the flags ts, those whose row stands in table with the flag FALSE
StandingFalse(ts, table) ==
    {t \in ts : \E y \in table :
        y.IdRol = t[1] /\ y.IdPermiso = t[2] /\ ~RowFlags(y)[t[3]]}

\* db.commit() of handler op, which leaves the tables as (roles, permisos, table)
Commit(op, roles, permisos, table) ==
    /\ Roles' = roles
    /\ Permisos' = permisos
    /\ RolesPermisos' = table
    /\ admin' = [pc |-> "committed", op |-> op, status |-> 200,
                 wrote |-> table # RolesPermisos, cleared |-> FALSE,
                 revokes |-> Revocations(RolesPermisos, table)]
    /\ revoked' = StandingFalse(revoked, table)
    /\ nops' = nops + 1

\* raise HTTPException(status_code=code): nothing is written
Reject(op, code) ==
    /\ admin' = [Idle EXCEPT !.pc = "responded", !.status = code]
    /\ nops' = nops + 1
    /\ UNCHANGED <<Roles, Permisos, RolesPermisos, revoked>>

AdminFrame ==
    UNCHANGED <<PERMISOS_CACHE, resp, look, fresh, now, cachedAt, Usuarios, resolverVars, sideVars>>

\* POST /rolespermisos/
create_or_update_rol_permiso(IdRol, IdPermiso, body) ==
    /\ CanStart
    /\ IF IdRol \notin RoleIds \/ IdPermiso \notin PermisoIds
       THEN Reject("create_or_update_rol_permiso", 404)
       ELSE Commit("create_or_update_rol_permiso", Roles, Permisos,
                   (RolesPermisos \ RowsOf(IdRol, IdPermiso))
                       \cup {Row(IdRol, IdPermiso, body)})
    /\ UNCHANGED <<permisoSeq, rolSeq>>
    /\ AdminFrame

\* Mutant: a field the body leaves out is written as false.
Merge_NoneIsFalse(existing, field) == field = "True"

\* a RolPermisoUpdate field ("None", "True" or "False"): None keeps the stored flag
Merge(existing, field) == IF field = "None" THEN existing ELSE field = "True"

UpdateBodies ==
    {[Crear |-> "None", Editar |-> "None", Leer |-> "None", Eliminar |-> "None"]}
    \cup {[[Crear |-> "None", Editar |-> "None", Leer |-> "None", Eliminar |-> "None"]
              EXCEPT ![c] = b] : c \in Columns, b \in {"True", "False"}}

\* PUT /rolespermisos/{rol_id}/{permiso_id}
update_rol_permiso(rol_id, permiso_id, body) ==
    /\ CanStart
    /\ IF RowsOf(rol_id, permiso_id) = {}
       THEN Reject("update_rol_permiso", 404)
       ELSE LET existing == CHOOSE row \in RowsOf(rol_id, permiso_id) : TRUE
                update_values ==
                    Flags(Merge(existing.Crear, body.Crear),
                          Merge(existing.Editar, body.Editar),
                          Merge(existing.Leer, body.Leer),
                          Merge(existing.Eliminar, body.Eliminar))
            IN  Commit("update_rol_permiso", Roles, Permisos,
                       (RolesPermisos \ RowsOf(rol_id, permiso_id))
                           \cup {Row(rol_id, permiso_id, update_values)})
    /\ UNCHANGED <<permisoSeq, rolSeq>>
    /\ AdminFrame

\* DELETE /rolespermisos/{rol_id}/{permiso_id}
delete_rol_permiso(rol_id, permiso_id) ==
    /\ CanStart
    /\ IF RowsOf(rol_id, permiso_id) = {}
       THEN Reject("delete_rol_permiso", 404)
       ELSE Commit("delete_rol_permiso", Roles, Permisos,
                   RolesPermisos \ RowsOf(rol_id, permiso_id))
    /\ UNCHANGED <<permisoSeq, rolSeq>>
    /\ AdminFrame

\* POST /roles/{rol_id}/permisos/{permiso_id}: the row takes the column defaults
add_permiso_to_rol(rol_id, permiso_id) ==
    /\ CanStart
    /\ IF rol_id \notin RoleIds \/ permiso_id \notin PermisoIds
       THEN Reject("add_permiso_to_rol", 404)
       ELSE IF RowsOf(rol_id, permiso_id) # {}
       THEN Reject("add_permiso_to_rol", 400)
       ELSE Commit("add_permiso_to_rol", Roles, Permisos,
                   RolesPermisos \cup {Row(rol_id, permiso_id, NoFlags)})
    /\ UNCHANGED <<permisoSeq, rolSeq>>
    /\ AdminFrame

\* DELETE /roles/{rol_id}/permisos/{permiso_id}
remove_permiso_from_rol(rol_id, permiso_id) ==
    /\ CanStart
    /\ IF rol_id \notin RoleIds \/ permiso_id \notin PermisoIds
            \/ RowsOf(rol_id, permiso_id) = {}
       THEN Reject("remove_permiso_from_rol", 404)
       ELSE Commit("remove_permiso_from_rol", Roles, Permisos,
                   RolesPermisos \ RowsOf(rol_id, permiso_id))
    /\ UNCHANGED <<permisoSeq, rolSeq>>
    /\ AdminFrame

SystemRoles == {"Administrador", "Usuario"}

\* DELETE /roles/{rol_id}: the ORM deletes the role's rows of the secondary table
\* with it. has_users: some Usuarios row carries this IdRol.
delete_rol(rol_id, has_users) ==
    /\ CanStart
    /\ IF rol_id \notin RoleIds
       THEN Reject("delete_rol", 404)
       ELSE IF (\E r \in Roles : r.IdRol = rol_id /\ r.NombreRol \in SystemRoles)
               \/ has_users
       THEN Reject("delete_rol", 400)
       ELSE Commit("delete_rol", {r \in Roles : r.IdRol # rol_id}, Permisos,
                   {row \in RolesPermisos : row.IdRol # rol_id})
    /\ UNCHANGED <<permisoSeq, rolSeq>>
    /\ AdminFrame

\* POST /permisos/
create_permiso(NombrePermiso) ==
    /\ CanStart
    /\ permisoSeq < MaxPermisos
    /\ permisoSeq' = permisoSeq + 1
    /\ UNCHANGED rolSeq
    /\ Commit("create_permiso", Roles,
              Permisos \cup {[IdPermiso |-> permisoSeq + 1, NombrePermiso |-> NombrePermiso]},
              RolesPermisos)
    /\ AdminFrame

\* DELETE /permisos/{permiso_id}: the ORM deletes its rows of the secondary table
delete_permiso(permiso_id) ==
    /\ CanStart
    /\ IF permiso_id \notin PermisoIds
       THEN Reject("delete_permiso", 404)
       ELSE Commit("delete_permiso", Roles,
                   {p \in Permisos : p.IdPermiso # permiso_id},
                   {row \in RolesPermisos : row.IdPermiso # permiso_id})
    /\ UNCHANGED <<permisoSeq, rolSeq>>
    /\ AdminFrame

\* GET /rolespermisos/limpiar-cache: nothing to commit
limpiar_cache_permisos(role) ==
    /\ CanStart
    /\ IF role # "Admin"
       THEN Reject("limpiar_cache_permisos", 403)
       ELSE Commit("limpiar_cache_permisos", Roles, Permisos, RolesPermisos)
    /\ UNCHANGED <<permisoSeq, rolSeq>>
    /\ AdminFrame

\* the handlers that call clear_permissions_cache() between commit and return
ClearingOps ==
    {"create_or_update_rol_permiso", "update_rol_permiso", "delete_rol_permiso",
     "limpiar_cache_permisos"}

\* Mutant: without the global declaration the assignment binds a local name.
clear_permissions_cache_NoGlobal == PERMISOS_CACHE

\* clear_permissions_cache(): PERMISOS_CACHE = {}
clear_permissions_cache == << >>

\* the handler's call of clear_permissions_cache()
AdminClear ==
    /\ admin.pc = "committed"
    /\ admin.op \in ClearingOps
    /\ PERMISOS_CACHE' = clear_permissions_cache
    /\ cachedAt' = << >>
    /\ fresh' = TRUE
    /\ revoked' = revoked \cup StandingFalse(admin.revokes, RolesPermisos)
    /\ admin' = [admin EXCEPT !.pc = "cleared", !.cleared = TRUE]
    /\ UNCHANGED <<dbVars, nops, resp, look, now, resolverVars, sideVars>>

\* return ResponseBase(...)
AdminRespond ==
    /\ \/ admin.pc = "cleared"
       \/ admin.pc = "committed" /\ admin.op \notin ClearingOps
    /\ admin' = [Idle EXCEPT !.pc = "responded", !.status = admin.status,
                              !.wrote = admin.wrote, !.cleared = admin.cleared]
    /\ UNCHANGED <<dbVars, PERMISOS_CACHE, nops, resp, look, histVars, resolverVars, sideVars>>

(***************************************************************************)
(* Properties of the gate.                                                 *)
(***************************************************************************)
SupportedMethods == {"GET", "POST", "PUT", "PATCH", "DELETE"}

TokenDecoded(t) == t.kind = "valid" /\ t.exp > now /\ t.user_id # 0 /\ t.role # ""

\* some Roles row, some Permisos row named by a variant of the segment, and the
\* RolesPermisos row of the pair with the flag of the method's action set
Granted(req) ==
    \E r \in Roles, q \in Permisos, row \in RolesPermisos :
        /\ LowerRole(r.NombreRol) = LowerRole(req.token.role)
        /\ \E i \in DOMAIN DispatchVariants(Lower(req.path[1])) :
               Lower(q.NombrePermiso) = Lower(DispatchVariants(Lower(req.path[1]))[i])
        /\ row.IdRol = r.IdRol /\ row.IdPermiso = q.IdPermiso
        /\ req.method \in SupportedMethods
        /\ RowFlags(row)[HTTP_METHOD_TO_PERMISSION(req.method)]

\* a step in which dispatch answers; the tables are those it read
Answers == resp'.served /\ ~resp.served

ForwardOnlyIfGranted(a) ==
    /\ a.out.forwarded =>
           (IsPublic(a.req.path) \/ (TokenDecoded(a.req.token) /\ Granted(a.req)))
    /\ ~a.out.forwarded => a.out.status \in {400, 401, 403, 500}

\* C1: dispatch forwards a request to call_next only if its path is public, or its
\* token decoded with user_id and role, the role resolved to a Roles row, a variant of
\* the first segment matched a Permisos row, the RolesPermisos row of the pair exists
\* and the flag of the method's action is true; every other request ends in a denial
\* response (400, 401, 403 or 500) and the handler is not invoked.
C1_ForwardOnlyIfGranted == [][Answers => ForwardOnlyIfGranted(resp')]_vars

C1_Witness ==
    /\ resp.served
    /\ resp.out.forwarded
    /\ ~IsPublic(resp.req.path)
    /\ resp.req.token.role = "empleado"

NoRowDenied(a) ==
    \A r \in Roles, q \in Permisos :
        (/\ RowsOf(r.IdRol, q.IdPermiso) = {}
         /\ a.req.method \in SupportedMethods
         /\ a.out.role_id = r.IdRol
         /\ a.out.permission_id = q.IdPermiso)
            => (~a.out.forwarded /\ a.out.status = 403)

StoredFlag(row, method) ==
    CASE method = "GET" -> row.Leer
      [] method = "POST" -> row.Crear
      [] method = "PUT" -> row.Editar
      [] method = "PATCH" -> row.Editar
      [] method = "DELETE" -> row.Eliminar

DecisionIsStoredFlag(a) ==
    (/\ a.req.method \in SupportedMethods
     /\ a.out.role_id # 0
     /\ a.out.permission_id # 0
     /\ RowsOf(a.out.role_id, a.out.permission_id) # {})
        => \A row \in RowsOf(a.out.role_id, a.out.permission_id) :
               a.out.forwarded = StoredFlag(row, a.req.method)

Twin(req) == [req EXCEPT !.method = IF req.method = "PUT" THEN "PATCH" ELSE "PUT"]

PutPatchAgree(a) ==
    a.req.method \in {"PUT", "PATCH"} => a.out \in GateOutcomes(Twin(a.req))

\* C4: for a fixed role, path and matrix state, a PUT request and a PATCH request
\* get the same decision from the gate: every answer one of them can get, the other
\* can get too.
C4_PutPatchAgree == [][Answers => PutPatchAgree(resp')]_vars

C4_Witness ==
    /\ resp.served
    /\ resp.req.method = "PATCH"
    /\ resp.out.forwarded
    /\ ~IsPublic(resp.req.path)

\* C5: a principal whose role is the superuser name "Admin" is allowed by the gate for
\* any resource and action, also one with no Permisos row and no RolesPermisos row.
C5_SuperuserAllowed ==
    (/\ resp.served
     /\ resp.req.token = ValidToken(1, "Admin")
     /\ resp.req.method \in SupportedMethods
     /\ resp.out.why # "db_error")
        => resp.out.forwarded

\* C7: every administrative handler that inserted, updated or deleted a RolesPermisos
\* row has called clear_permissions_cache() by the time it responds.
C7_WritesInvalidate ==
    (admin.pc = "responded" /\ admin.wrote) => admin.cleared

\* C12: a request whose path matches the public allow-list is forwarded by dispatch
\* whatever its method and its Authorization header, with no token verification, no
\* role or permission resolved and no database call that could fail.
C12_PublicForwarded ==
    [][Answers => (IsPublic(resp'.req.path) => resp'.out = Forward(0, 0))]_vars

C12_Witness ==
    /\ resp.served
    /\ resp.req.path = <<SegDocs, <<"v">> >>
    /\ resp.req.token = NoToken
    /\ resp.req.method = "DELETE"
    /\ resp.out.forwarded

\* the 401 answers, given before the first query
Unauthenticated == {Deny(401, w, 0, 0) : w \in {"no_bearer", "decode_failed", "missing_claims"}}

\* C13: a request to a non-public path with no Bearer header, an undecodable or
\* invalid token, or a token lacking user_id or role is answered 401, and no database
\* query has been issued (no role resolved, no database error possible).
C13_UnauthenticatedBeforeDb ==
    [][Answers =>
          ((~IsPublic(resp'.req.path) /\ ~TokenDecoded(resp'.req.token))
              => resp'.out \in Unauthenticated)]_vars

C13_Witness ==
    /\ resp.served
    /\ resp.req.token = ValidToken(1, "")
    /\ ~IsPublic(resp.req.path)
    /\ resp.out.status = 401

\* the token is signed and complete, and its exp has passed
Expired(t) == t.kind = "valid" /\ t.user_id # 0 /\ t.role # "" /\ t.exp <= now

\* C14 (as stated): a request carrying a token whose exp is in the past is answered
\* 401 for every role claim and every path.
C14_ExpiredRejectedEveryPath ==
    (resp.served /\ Expired(resp.req.token)) => resp.out.status = 401

\* C14 (amended): a request carrying a token whose exp is in the past is answered 401
\* for every role claim and every path that is not on the public allow-list.
C14_ExpiredRejected ==
    [][Answers =>
          ((Expired(resp'.req.token) /\ ~IsPublic(resp'.req.path))
              => resp'.out = Deny(401, "decode_failed", 0, 0))]_vars

C14_Witness ==
    /\ resp.served
    /\ resp.req.token = ExpiredToken(1, "Admin")
    /\ ~IsPublic(resp.req.path)
    /\ resp.out.status = 401

\* C15: a request with a method outside GET/POST/PUT/PATCH/DELETE (and not OPTIONS) is
\* rejected with 405, whatever the role and the catalog.
C15_UnsupportedMethod405 ==
    (/\ resp.served
     /\ resp.req.method = "HEAD"
     /\ ~IsPublic(resp.req.path)
     /\ TokenDecoded(resp.req.token)
     /\ resp.out.why # "db_error")
        => resp.out.status = 405

\* C16: an OPTIONS request always passes through the gate to the next handler, for
\* every path and with or without an Authorization header.
C16_OptionsPasses ==
    (resp.served /\ resp.req.method = "OPTIONS") => resp.out.forwarded

\* C17: for a valid token whose role name matches no Roles row, the gate answers 403
\* for every non-public path and every method; the missing role itself never gives a
\* 500 (a 500 only answers a query that raised).
C17_UnknownRole403 ==
    [][Answers =>
          ((/\ TokenDecoded(resp'.req.token)
            /\ ~IsPublic(resp'.req.path)
            /\ RoleIdsNamed(resp'.req.token.role) = {}
            /\ resp'.out.why # "db_error")
              => resp'.out = Deny(403, "no_role", 0, 0))]_vars

C17_Witness ==
    /\ resp.served
    /\ resp.req.token = ValidToken(1, "Invitado")
    /\ resp.req.method = "HEAD"
    /\ resp.out.why = "no_role"
    /\ resp.out.status = 403

\* the detail text of the three 403 answers of steps 2 and 3, without its parameters
Detail(o) ==
    CASE o.why = "no_permiso" -> "Acceso denegado: No existe permiso para"
      [] o.why = "no_row" -> "Acceso denegado: No existe relacion rol-permiso para"
      [] o.why = "flag_false" -> "Acceso denegado: El rol no tiene permiso para"
      [] OTHER -> ""

\* C18: for a fixed role, method and path the gate's denial (status and body) is the
\* same when no Permisos row matches, when the Permisos row has no RolesPermisos row
\* for the role, and when the row's flag is false.
C18_DenialsIndistinguishable ==
    (resp.served /\ resp.out.why \in {"no_permiso", "no_row", "flag_false"})
        => /\ resp.out.status = 403
           /\ Detail(resp.out) = Detail(Deny(403, "no_permiso", 0, 0))

\* C19: when a database call of the lookup raises, the request is not forwarded and
\* the answer is a denial (500); nothing is tried again.
C19_DbErrorFailsClosed ==
    [][Answers =>
          (resp'.out.why = "db_error"
              => (~resp'.out.forwarded /\ resp'.out.status = 500 /\ resp'.out.role_id = 0))]_vars

C19_Witness ==
    /\ resp.served
    /\ resp.out.why = "db_error"
    /\ resp.out.status = 500
    /\ resp.req.token = ValidToken(1, "empleado")
    /\ resp.req.method = "GET"

\* C23: the variants of the path segment are tried against Permisos in list order,
\* exact segment first, and the search stops at the first one that matches; when
\* several variants match different Permisos rows the decision is taken only from the
\* RolesPermisos entry of the first-matched row, even if a later variant's row would
\* grant the action.
C23_FirstVariantDecides ==
    [][(Answers /\ resp'.out.permission_id # 0) =>
          LET o == resp'.out
              variants == DispatchVariants(Lower(resp'.req.path[1]))
              column == HTTP_METHOD_TO_PERMISSION(resp'.req.method)
          IN  \E i \in 1..Len(variants) :
                  /\ \A j \in 1..(i - 1) : PermisoIdsNamed(variants[j]) = {}
                  /\ o.permission_id \in PermisoIdsNamed(variants[i])
                  /\ o.forwarded <=>
                         /\ column # "None"
                         /\ \E row \in RowsOf(o.role_id, o.permission_id) :
                                RowFlags(row)[column]]_vars

\* /vs/5 matches the rows named "vs" and "v"; the first denies POST, the second
\* would grant it
C23_Witness ==
    /\ resp.served
    /\ resp.req.path = << <<"v", "s">>, <<"5">> >>
    /\ resp.req.method = "POST"
    /\ resp.req.token = ValidToken(1, "empleado")
    /\ PermisoIdsNamed(<<"v", "s">>) = {1}
    /\ PermisoIdsNamed(<<"v">>) = {2}
    /\ RowsOf(2, 2) = {Row(2, 2, Flags(TRUE, FALSE, FALSE, FALSE))}
    /\ resp.out = Deny(403, "flag_false", 2, 1)

(***************************************************************************)
(* The cached lookup: RolesPermisosMiddleware.check_permission.  Every     *)
(* read of the global PERMISOS_CACHE is a step of its own, because         *)
(* clear_permissions_cache() rebinds the global from another thread.       *)
(***************************************************************************)
Procs == {"t1"}

LookRoles == {"Empleado", "Admin"}
LookControllers == PermisoNames
LookMethods == {"GET", "PUT", "OPTIONS"}

LookIdle ==
    [pc |-> "idle", role_name |-> "", controller_name |-> << >>, http_method |-> "",
     i |-> 0, row |-> NoFlags, result |-> FALSE, src |-> "none", fresh |-> FALSE,
     rev0 |-> {}, age |-> 0]

\* return value, and where it came from
Done(l, value, source) == [l EXCEPT !.pc = "done", !.result = value, !.src = source]

\* the cached dict of a role, the empty dict when the role has none
CacheOf(role_name) ==
    IF role_name \in DOMAIN PERMISOS_CACHE THEN PERMISOS_CACHE[role_name] ELSE << >>

\* d[key] = value
Put(d, key, value) == [k \in DOMAIN d \cup {key} |-> IF k = key THEN value ELSE d[k]]

LookFrame == UNCHANGED <<dbVars, admin, nops, resp, now, revoked, resolverVars, sideVars>>

\* lines 275-303: the Admin shortcut, the method, and the first look at the cache
Call(p, role_name, controller_name, http_method) ==
    /\ look[p].pc = "idle"
    /\ LET l == [LookIdle EXCEPT !.role_name = role_name,
                                 !.controller_name = controller_name,
                                 !.http_method = http_method,
                                 !.fresh = fresh, !.rev0 = revoked]
       IN  look' = [look EXCEPT ![p] =
                IF role_name = "Admin" \/ LowerRole(role_name) = "admin"
                THEN Done(l, TRUE, "bypass")
                ELSE IF HTTP_METHOD_TO_PERMISSION(http_method) = "None"
                THEN Done(l, FALSE, "unsupported")
                ELSE IF role_name \in DOMAIN PERMISOS_CACHE
                THEN [l EXCEPT !.pc = "scan", !.i = 1]
                ELSE [l EXCEPT !.pc = "db"]]
    /\ UNCHANGED <<PERMISOS_CACHE, fresh, cachedAt>>
    /\ LookFrame

\* line 306: if variant in PERMISOS_CACHE[role_name]
Scan(p) ==
    /\ look[p].pc = "scan"
    /\ LET l == look[p]
           variants == CheckVariants(l.controller_name)
       IN  look' = [look EXCEPT ![p] =
                IF l.role_name \notin DOMAIN PERMISOS_CACHE
                THEN [l EXCEPT !.pc = "raised", !.src = "KeyError"]
                ELSE IF variants[l.i] \in DOMAIN PERMISOS_CACHE[l.role_name]
                THEN [l EXCEPT !.pc = "hit"]
                ELSE IF l.i < Len(variants)
                THEN [l EXCEPT !.i = l.i + 1]
                ELSE [l EXCEPT !.pc = "db"]]
    /\ UNCHANGED <<PERMISOS_CACHE, fresh, cachedAt>>
    /\ LookFrame

\* lines 308-310: the cached flag is the answer
Hit(p) ==
    /\ look[p].pc = "hit"
    /\ LET l == look[p]
           variant == CheckVariants(l.controller_name)[l.i]
       IN  look' = [look EXCEPT ![p] =
                IF variant \notin DOMAIN CacheOf(l.role_name)
                THEN [l EXCEPT !.pc = "raised", !.src = "KeyError"]
                ELSE [Done(l, PERMISOS_CACHE[l.role_name][variant]
                                  [HTTP_METHOD_TO_PERMISSION(l.http_method)], "cache")
                        EXCEPT !.age = now - cachedAt[<<l.role_name, variant>>]]]
    /\ UNCHANGED <<PERMISOS_CACHE, fresh, cachedAt>>
    /\ LookFrame

\* the rows of the join for one variant
JoinRows(role_name, variant) ==
    {row \in RolesPermisos :
        /\ row.IdRol \in RoleIdsNamed(role_name)
        /\ row.IdPermiso \in PermisoIdsNamed(variant)}

\* index of the first variant whose join has a row, 0 when none has
FirstJoin(role_name, variants) ==
    LET hits == {i \in 1..Len(variants) : JoinRows(role_name, variants[i]) # {}}
    IN  IF hits = {} THEN 0 ELSE CHOOSE i \in hits : \A j \in hits : i <= j

\* lines 313-361: the join, variant by variant; first() takes any row of the first hit
DbQuery(p) ==
    /\ look[p].pc = "db"
    /\ LET l == look[p]
           variants == CheckVariants(l.controller_name)
           k == FirstJoin(l.role_name, variants)
       IN  IF k = 0
           THEN look' = [look EXCEPT ![p] = Done(l, FALSE, "db")]
           ELSE \E rol_permiso \in JoinRows(l.role_name, variants[k]) :
                    look' = [look EXCEPT ![p] =
                                [l EXCEPT !.pc = "store1", !.row = RowFlags(rol_permiso)]]
    /\ UNCHANGED <<PERMISOS_CACHE, fresh, cachedAt>>
    /\ LookFrame

\* lines 393-396: a query raised; except Exception returns False
DbError(p) ==
    /\ look[p].pc = "db"
    /\ look' = [look EXCEPT ![p] = Done(look[p], FALSE, "db_error")]
    /\ UNCHANGED <<PERMISOS_CACHE, fresh, cachedAt>>
    /\ LookFrame

\* lines 364-365: if role_name not in PERMISOS_CACHE: PERMISOS_CACHE[role_name] = {}
Store1(p) ==
    /\ look[p].pc = "store1"
    /\ PERMISOS_CACHE' =
           IF look[p].role_name \in DOMAIN PERMISOS_CACHE
           THEN PERMISOS_CACHE
           ELSE Put(PERMISOS_CACHE, look[p].role_name, << >>)
    /\ look' = [look EXCEPT ![p].pc = "store2"]
    /\ UNCHANGED <<fresh, cachedAt>>
    /\ LookFrame

\* lines 371-378: PERMISOS_CACHE[role_name][controller_name] = {...}
Store2(p) ==
    /\ look[p].pc = "store2"
    /\ LET l == look[p]
       IN  IF l.role_name \notin DOMAIN PERMISOS_CACHE
           THEN /\ look' = [look EXCEPT ![p] = Done(l, FALSE, "exception")]
                /\ UNCHANGED <<PERMISOS_CACHE, fresh, cachedAt>>
           ELSE /\ PERMISOS_CACHE' =
                       Put(PERMISOS_CACHE, l.role_name,
                           Put(PERMISOS_CACHE[l.role_name], l.controller_name, l.row))
                /\ cachedAt' = Put(cachedAt, <<l.role_name, l.controller_name>>, now)
                /\ fresh' = FALSE
                /\ look' = [look EXCEPT ![p].pc = "ret"]
    /\ LookFrame

\* lines 381-389: the answer is read back from the cache
Ret(p) ==
    /\ look[p].pc = "ret"
    /\ LET l == look[p]
       IN  look' = [look EXCEPT ![p] =
                IF l.controller_name \notin DOMAIN CacheOf(l.role_name)
                THEN Done(l, FALSE, "exception")
                ELSE Done(l, PERMISOS_CACHE[l.role_name][l.controller_name]
                                 [HTTP_METHOD_TO_PERMISSION(l.http_method)], "db")]
    /\ UNCHANGED <<PERMISOS_CACHE, fresh, cachedAt>>
    /\ LookFrame

\* the caller has its answer (or its exception)
Return(p) ==
    /\ look[p].pc \in {"done", "raised"}
    /\ look' = [look EXCEPT ![p] = LookIdle]
    /\ UNCHANGED <<PERMISOS_CACHE, fresh, cachedAt>>
    /\ LookFrame

\* time passes
Tick ==
    /\ now < MaxClock
    /\ now' = now + 1
    /\ UNCHANGED <<dbVars, PERMISOS_CACHE, admin, nops, resp, look, fresh, cachedAt,
                   revoked, resolverVars, sideVars>>

(***************************************************************************)
(* Properties of the cached lookup.                                        *)
(***************************************************************************)
\* the column a call asks about
ColumnOf(l) == HTTP_METHOD_TO_PERMISSION(l.http_method)

\* every row the join can return for the call has the asked flag FALSE
DbDenies(l) ==
    \A i \in DOMAIN CheckVariants(l.controller_name) :
        \A row \in JoinRows(l.role_name, CheckVariants(l.controller_name)[i]) :
            ~RowFlags(row)[ColumnOf(l)]

\* the asked flag was revoked, by a write that committed and invalidated before the
\* call began, and the revocation still stands
RevokedBefore(l) ==
    \E t \in l.rev0 \cap revoked :
        /\ t[3] = ColumnOf(l)
        /\ \E i \in DOMAIN CheckVariants(l.controller_name) :
               \E row \in JoinRows(l.role_name, CheckVariants(l.controller_name)[i]) :
                   row.IdRol = t[1] /\ row.IdPermiso = t[2]

\* C6: once an administrative write that revokes an action for (role, resource) has
\* committed and its cache invalidation has run, no check_permission call that begins
\* later returns True for that action and role, in every interleaving of the write
\* with lookups in flight.
C6_NoAllowAfterRevocation ==
    \A p \in Procs :
        (/\ look[p].pc = "done"
         /\ look[p].src \in {"cache", "db"}
         /\ RevokedBefore(look[p])
         /\ DbDenies(look[p]))
            => ~look[p].result

C9_ExpiredNeverReturned ==
    \A p \in Procs :
        (look[p].pc = "done" /\ look[p].src = "cache") => look[p].age <= TTL

(***************************************************************************)
(* The role handlers of src/controllers/rol_controller.py.                 *)
(***************************************************************************)
MaxRoles == 3      \* IdRol values handed out by the identity column

\* the NombreRol values the role requests of the model carry
RolNameArgs == {"Admin", "admin", "Empleado", "Administrador"}

\* db.query(Roles).filter(Roles.NombreRol == name): the comparison is exact
RolesNamedExactly(name) == {r \in Roles : r.NombreRol = name}

\* POST /roles/
create_rol(NombreRol) ==
    /\ CanStart
    /\ rolSeq < MaxRoles
    /\ IF RolesNamedExactly(NombreRol) # {}
       THEN Reject("create_rol", 400) /\ UNCHANGED rolSeq
       ELSE /\ rolSeq' = rolSeq + 1
            /\ Commit("create_rol",
                      Roles \cup {[IdRol |-> rolSeq + 1, NombreRol |-> NombreRol]},
                      Permisos, RolesPermisos)
    /\ UNCHANGED permisoSeq
    /\ AdminFrame

\* PUT /roles/{rol_id}; NombreRol "None" is a body that does not set the name
update_rol(rol_id, NombreRol) ==
    /\ CanStart
    /\ IF rol_id \notin RoleIds
       THEN Reject("update_rol", 404)
       ELSE LET db_rol == CHOOSE r \in Roles : r.IdRol = rol_id
            IN  IF db_rol.NombreRol \in SystemRoles /\ NombreRol # db_rol.NombreRol
                THEN Reject("update_rol", 400)
                ELSE Commit("update_rol",
                            IF NombreRol = "None"
                            THEN Roles
                            ELSE (Roles \ {db_rol})
                                     \cup {[IdRol |-> rol_id, NombreRol |-> NombreRol]},
                            Permisos, RolesPermisos)
    /\ UNCHANGED <<permisoSeq, rolSeq>>
    /\ AdminFrame

\* C21: after any sequence of role operations (create_rol, update_rol, delete_rol) no
\* two Roles rows have the same NombreRol.
C21_RoleNamesUnique ==
    \A x \in Roles, y \in Roles : x.NombreRol = y.NombreRol => x = y


(***************************************************************************)
(* Concurrent writers of RolesPermisos.  A request runs in a worker thread *)
(* with a session of its own: what it read before its write is a step      *)
(* apart from the write.  The write and its commit are one step, because   *)
(* an INSERT that meets an uncommitted row with its key waits for that     *)
(* transaction to end.                                                     *)
(***************************************************************************)
Workers == {"w1", "w2"}

UpsertIdle ==
    [pc |-> "idle", op |-> "none", IdRol |-> 0, IdPermiso |-> 0, body |-> NoFlags,
     exists |-> FALSE, status |-> 0]

\* the flag vectors the concurrent requests of the model carry
UpsertBodies == {Flags(TRUE, FALSE, FALSE, FALSE), Flags(FALSE, FALSE, TRUE, FALSE)}

\* Mutant: the table has no primary key.
PrimaryKeyViolated_NoKey(table, IdRol, IdPermiso) == FALSE

\* PrimaryKeyConstraint('IdRol', 'IdPermiso', name='RolesPermisos_pkey') on an INSERT
PrimaryKeyViolated(table, IdRol, IdPermiso) ==
    \E row \in table : row.IdRol = IdRol /\ row.IdPermiso = IdPermiso

\* the two foreign keys of the table on an INSERT
ForeignKeyViolated(IdRol, IdPermiso) == IdRol \notin RoleIds \/ IdPermiso \notin PermisoIds

WorkerFrame ==
    UNCHANGED <<Roles, Permisos, permisoSeq, rolSeq, Usuarios, admin, nops, resp, look,
                now, resolverVars, issued, Reservaciones, VehiculosReservaciones, reply>>

\* create_or_update_rol_permiso, lines 225-247: the two 404s and SELECT EXISTS
upsert_select(w, IdRol, IdPermiso, body) ==
    /\ upsert[w].pc = "idle"
    /\ LET u == [UpsertIdle EXCEPT !.op = "create_or_update_rol_permiso",
                                   !.IdRol = IdRol, !.IdPermiso = IdPermiso,
                                   !.body = body]
       IN  upsert' = [upsert EXCEPT ![w] =
               IF IdRol \notin RoleIds \/ IdPermiso \notin PermisoIds
               THEN [u EXCEPT !.pc = "responded", !.status = 404]
               ELSE [u EXCEPT !.pc = "checked",
                              !.exists = RowsOf(IdRol, IdPermiso) # {}]]
    /\ UNCHANGED <<RolesPermisos, PERMISOS_CACHE, fresh, cachedAt, revoked>>
    /\ WorkerFrame

\* add_permiso_to_rol, lines 186-199: the two 404s and "permiso in rol.Permisos"
add_select(w, rol_id, permiso_id) ==
    /\ upsert[w].pc = "idle"
    /\ LET u == [UpsertIdle EXCEPT !.op = "add_permiso_to_rol", !.IdRol = rol_id,
                                   !.IdPermiso = permiso_id]
       IN  upsert' = [upsert EXCEPT ![w] =
               IF rol_id \notin RoleIds \/ permiso_id \notin PermisoIds
               THEN [u EXCEPT !.pc = "responded", !.status = 404]
               ELSE IF RowsOf(rol_id, permiso_id) # {}
               THEN [u EXCEPT !.pc = "responded", !.status = 400]
               ELSE [u EXCEPT !.pc = "checked"]]
    /\ UNCHANGED <<RolesPermisos, PERMISOS_CACHE, fresh, cachedAt, revoked>>
    /\ WorkerFrame

\* the UPDATE or the INSERT, and db.commit(); a constraint raises IntegrityError,
\* which no handler catches
upsert_write(w) ==
    /\ upsert[w].pc = "checked"
    /\ LET u == upsert[w]
           row == Row(u.IdRol, u.IdPermiso, u.body)
           raises ==
               /\ ~u.exists
               /\ \/ PrimaryKeyViolated(RolesPermisos, u.IdRol, u.IdPermiso)
                  \/ ForeignKeyViolated(u.IdRol, u.IdPermiso)
           table ==
               IF raises THEN RolesPermisos
               ELSE IF ~u.exists THEN RolesPermisos \cup {row}
               ELSE IF RowsOf(u.IdRol, u.IdPermiso) = {} THEN RolesPermisos
               ELSE (RolesPermisos \ RowsOf(u.IdRol, u.IdPermiso)) \cup {row}
       IN  /\ RolesPermisos' = table
           /\ revoked' = StandingFalse(revoked, table)
           /\ upsert' = [upsert EXCEPT ![w] =
                  IF raises
                  THEN [u EXCEPT !.pc = "responded", !.status = 500]
                  ELSE [u EXCEPT !.pc = "committed"]]
    /\ UNCHANGED <<PERMISOS_CACHE, fresh, cachedAt>>
    /\ WorkerFrame

\* clear_permissions_cache() where the handler calls it, and the response
upsert_return(w) ==
    /\ upsert[w].pc = "committed"
    /\ upsert' = [upsert EXCEPT ![w].pc = "responded", ![w].status = 200]
    /\ IF upsert[w].op \in ClearingOps
       THEN /\ PERMISOS_CACHE' = clear_permissions_cache
            /\ cachedAt' = << >>
            /\ fresh' = TRUE
       ELSE UNCHANGED <<PERMISOS_CACHE, fresh, cachedAt>>
    /\ UNCHANGED <<RolesPermisos, revoked>>
    /\ WorkerFrame

\* C22: after any sequence and any interleaving of create_or_update_rol_permiso,
\* update_rol_permiso, delete_rol_permiso and add_permiso_to_rol calls there is at
\* most one RolesPermisos row per (IdRol, IdPermiso); two concurrent
\* create_or_update_rol_permiso calls that both observe 'not exists' never leave two.
C22_OneRowPerPair ==
    \A x \in RolesPermisos, y \in RolesPermisos :
        (x.IdRol = y.IdRol /\ x.IdPermiso = y.IdPermiso) => x = y

\* both calls saw no row for the pair; one inserted it, the other's INSERT raised
C22_Witness ==
    /\ upsert["w1"].op = "create_or_update_rol_permiso"
    /\ upsert["w2"].op = "create_or_update_rol_permiso"
    /\ upsert["w1"].IdRol = upsert["w2"].IdRol
    /\ upsert["w1"].IdPermiso = upsert["w2"].IdPermiso
    /\ upsert["w1"].body # upsert["w2"].body
    /\ ~upsert["w1"].exists /\ ~upsert["w2"].exists
    /\ upsert["w1"].pc = "responded" /\ upsert["w1"].status = 200
    /\ upsert["w2"].pc = "responded" /\ upsert["w2"].status = 500
    /\ RowsOf(upsert["w1"].IdRol, upsert["w1"].IdPermiso)
           = {Row(upsert["w1"].IdRol, upsert["w1"].IdPermiso, upsert["w1"].body)}


(***************************************************************************)
(* check_permission against a concurrent clear_permissions_cache().        *)
(***************************************************************************)
\* the four keys of a cached resource entry
WellFormedEntry(entry) == DOMAIN entry = Columns

\* every action the matrix grants for the call: some row of the join has the flag
MatrixGrants(l) ==
    \E i \in DOMAIN CheckVariants(l.controller_name) :
        \E row \in JoinRows(l.role_name, CheckVariants(l.controller_name)[i]) :
            RowFlags(row)[ColumnOf(l)]

\* C24: when clear_permissions_cache() runs concurrently with check_permission, in
\* every interleaving check_permission neither raises an exception nor returns a
\* denial for an action the matrix grants, and every role key of the cache maps to a
\* dict of resource entries with all four flags.
C24_ClearIsSafe ==
    /\ \A p \in Procs :
           /\ look[p].pc # "raised"
           /\ (look[p].pc = "done" /\ look[p].src = "exception") => ~MatrixGrants(look[p])
    /\ \A role_name \in DOMAIN PERMISOS_CACHE :
           \A name \in DOMAIN PERMISOS_CACHE[role_name] :
               WellFormedEntry(PERMISOS_CACHE[role_name][name])


(***************************************************************************)
(* check_permission beside dispatch, on a matrix that does not change.     *)
(***************************************************************************)
\* the answers dispatch can give a signed request of the role for /<segment>, when
\* no query raises
GateDecisions(role_name, segment, method) ==
    GateOutcomes([path |-> <<segment>>, method |-> method,
                  token |-> ValidToken(1, role_name)])
        \ {Deny(500, "db_error", 0, 0)}

\* the answers the database part of check_permission can give the call
FreshDecisions(l) ==
    LET variants == CheckVariants(l.controller_name)
        k == FirstJoin(l.role_name, variants)
    IN  IF k = 0 THEN {FALSE}
        ELSE {RowFlags(row)[ColumnOf(l)] : row \in JoinRows(l.role_name, variants[k])}

\* C25: for every matrix state, role name, path segment and HTTP method,
\* check_permission started with an empty cache returns True exactly when dispatch
\* would forward a request with that role, segment and method.
C25_LookupAgreesWithGate ==
    \A p \in Procs :
        (/\ look[p].pc = "done"
         /\ look[p].fresh
         /\ look[p].src \in {"bypass", "unsupported", "db"})
            => \A o \in GateDecisions(look[p].role_name, look[p].controller_name,
                                      look[p].http_method) :
                   o.forwarded = look[p].result

\* C26: for an unchanged matrix, a cache hit found under any variant of the resource
\* name yields the boolean a fresh database lookup for that request would yield.
C26_HitEqualsFreshLookup ==
    \A p \in Procs :
        (look[p].pc = "done" /\ look[p].src = "cache")
            => look[p].result \in FreshDecisions(look[p])

\* matrices with one or two resources and the entries of role 2 for them
CacheTables ==
    /\ Roles = {[IdRol |-> 1, NombreRol |-> "Admin"], [IdRol |-> 2, NombreRol |-> "Empleado"]}
    /\ Permisos \in
           {{[IdPermiso |-> 1, NombrePermiso |-> <<"v", "s">>]},
            {[IdPermiso |-> 1, NombrePermiso |-> <<"v", "s">>],
             [IdPermiso |-> 2, NombrePermiso |-> <<"v", "e", "s">>]}}
    /\ RolesPermisos \in
           {{Row(2, 1, f)} : f \in BodyFlags}
               \cup {{Row(2, 1, f), Row(2, q, g)} :
                        f \in BodyFlags, g \in BodyFlags,
                        q \in {x.IdPermiso : x \in Permisos} \ {1}}
    /\ permisoSeq = MaxPermisos
    /\ rolSeq = 2
    /\ Usuarios = {[IdUsuario |-> 1, Activo |-> TRUE], [IdUsuario |-> 2, Activo |-> TRUE]}


(***************************************************************************)
(* The two endpoints that issue tokens (src/controllers/auth_controller.py)*)
(* and the role claim they write.                                          *)
(***************************************************************************)
\* role_map.get(role_name.lower(), role_name); None for an empty name
normalize_role_name(role_name) ==
    IF role_name = "" THEN "None"
    ELSE CASE LowerRole(role_name) = "admin" -> "Administrador"
           [] LowerRole(role_name) = "usuario" -> "Usuario"
           [] OTHER -> role_name

\* db.query(Roles).filter(Roles.IdRol == user.IdRol).first(), for a role in the table
NombreRolOf(IdRol) == (CHOOSE r \in Roles : r.IdRol = IdRol).NombreRol

\* no token issued yet; IdRol is the role of the user who logs in
NoIssued == [IdRol |-> 0, login |-> "", token |-> ""]

IssueFrame ==
    UNCHANGED <<dbVars, PERMISOS_CACHE, admin, nops, resp, look, histVars, resolverVars,
                upsert, Reservaciones, VehiculosReservaciones, reply>>

\* POST /auth/login by a user whose role is IdRol: role=role.NombreRol
login_user(IdRol) ==
    /\ issued.login = ""
    /\ issued.IdRol \in {0, IdRol}
    /\ IdRol \in RoleIds
    /\ issued' = [issued EXCEPT !.IdRol = IdRol, !.login = NombreRolOf(IdRol)]
    /\ IssueFrame

\* POST /auth/token by the same user: role=normalize_role_name(role.NombreRol)
get_token(IdRol) ==
    /\ issued.token = ""
    /\ issued.IdRol \in {0, IdRol}
    /\ IdRol \in RoleIds
    /\ issued' = [issued EXCEPT !.IdRol = IdRol,
                                !.token = normalize_role_name(NombreRolOf(IdRol))]
    /\ IssueFrame

\* a request that carries one of the issued tokens
DispatchIssued ==
    \E role \in {issued.login, issued.token} \ {""}, method \in {"GET", "POST"} :
        Dispatch([path |-> << <<"v", "s">>, <<"5">> >>, method |-> method,
                  token |-> ValidToken(1, role)])

\* C27: for any user, the role claim of a token issued by /auth/login equals the role
\* claim of a token issued by /auth/token, both equal the NombreRol stored for the
\* user's role, and the gate gives both tokens the same decision for every request.
C27_SameRoleClaim ==
    (issued.login # "" /\ issued.token # "") =>
        /\ issued.login = issued.token
        /\ issued.token = NombreRolOf(issued.IdRol)
        /\ \A segment \in PermisoNames, method \in Methods :
               GateDecisions(issued.login, segment, method)
                   = GateDecisions(issued.token, segment, method)

\* the stored role names the users of the model can have
TokenTables ==
    /\ Roles \in {{[IdRol |-> 1, NombreRol |-> a], [IdRol |-> 2, NombreRol |-> b]} :
                     a \in {"Admin", "admin", "Administrador"},
                     b \in {"Empleado", "Usuario", "usuario"}}
    /\ Permisos = {[IdPermiso |-> 1, NombrePermiso |-> <<"v", "s">>]}
    /\ RolesPermisos \in {{Row(1, 1, Flags(TRUE, TRUE, TRUE, TRUE)), Row(2, 1, f)} :
                             f \in {NoFlags, Flags(FALSE, FALSE, TRUE, FALSE)}}
    /\ permisoSeq = 1
    /\ rolSeq = 2
    /\ Usuarios = {[IdUsuario |-> 1, Activo |-> TRUE], [IdUsuario |-> 2, Activo |-> TRUE]}


(***************************************************************************)
(* Reservations and the vehicles assigned to them                          *)
(* (src/controllers/reservacion_controller.py and                          *)
(* src/controllers/vehiculoreservacion_controller.py).                     *)
(***************************************************************************)
MaxDate == 3       \* last day of the calendar; 0 stands for a date the body leaves out

Dates == 1..MaxDate

\* one vehicle, available; reservation ids 1 and 2 exist, 3 does not
Vehiculos == {[IdVehiculo |-> 1, Disponible |-> TRUE]}
VehiculoArgs == {1, 2}
ReservacionArgs == {1, 2, 3}

\* two personal reservations on days that do not overlap
InitReservaciones ==
    {[IdReservacion |-> 1, FechaInicio |-> 1, FechaFin |-> 2, Estado |-> "Pendiente"],
     [IdReservacion |-> 2, FechaInicio |-> 2, FechaFin |-> 3, Estado |-> "Pendiente"]}

NoReply == [op |-> "none", status |-> 0]

ROLES_PERMITIDOS == {"Administrador", "Gerente", "Empleado"}

\* Usuarios.IdRol: user 1 has role 1, user 2 has role 2
IdRolOfUsuario(usuario_id) == usuario_id

\* verificar_permisos_usuario(usuario_id, db)
verificar_permisos_usuario(usuario_id) ==
    /\ usuario_id \in {u.IdUsuario : u \in Usuarios}
    /\ IdRolOfUsuario(usuario_id) \in RoleIds
    /\ NombreRolOf(IdRolOfUsuario(usuario_id)) \in ROLES_PERMITIDOS

ReservacionesWithId(id) == {x \in Reservaciones : x.IdReservacion = id}

AsignacionesOf(IdVehiculo, IdReservacion) ==
    {a \in VehiculosReservaciones :
        a.IdVehiculo = IdVehiculo /\ a.IdReservacion = IdReservacion}

\* the join of create_vehiculo_reservacion: active assignments of the vehicle whose
\* reservation overlaps the days of reservacion
conflicting_reservaciones(IdVehiculo, reservacion) ==
    {a \in VehiculosReservaciones :
        /\ a.IdVehiculo = IdVehiculo
        /\ a.EstadoAsignacion = "Activa"
        /\ \E x \in ReservacionesWithId(a.IdReservacion) :
               /\ x.FechaInicio < reservacion.FechaFin
               /\ x.FechaFin > reservacion.FechaInicio}

ReservaFrame ==
    UNCHANGED <<dbVars, PERMISOS_CACHE, admin, nops, resp, look, histVars, resolverVars,
                upsert, issued>>

\* raise HTTPException(status_code=code) of a reservation handler
Refuse(op, code) ==
    /\ reply' = [op |-> op, status |-> code]
    /\ UNCHANGED <<Reservaciones, VehiculosReservaciones>>

\* POST /vehiculosreservaciones/
create_vehiculo_reservacion(IdVehiculo, IdReservacion, EstadoAsignacion) ==
    /\ IF IdVehiculo \notin {v.IdVehiculo : v \in Vehiculos}
       THEN Refuse("create_vehiculo_reservacion", 404)
       ELSE IF \E v \in Vehiculos : v.IdVehiculo = IdVehiculo /\ ~v.Disponible
       THEN Refuse("create_vehiculo_reservacion", 400)
       ELSE IF ReservacionesWithId(IdReservacion) = {}
       THEN Refuse("create_vehiculo_reservacion", 404)
       ELSE IF AsignacionesOf(IdVehiculo, IdReservacion) # {}
       THEN Refuse("create_vehiculo_reservacion", 400)
       ELSE LET reservacion == CHOOSE x \in ReservacionesWithId(IdReservacion) : TRUE
            IN  IF conflicting_reservaciones(IdVehiculo, reservacion) # {}
                THEN Refuse("create_vehiculo_reservacion", 400)
                ELSE /\ VehiculosReservaciones' =
                            VehiculosReservaciones
                                \cup {[IdVehiculo |-> IdVehiculo,
                                       IdReservacion |-> IdReservacion,
                                       EstadoAsignacion |-> EstadoAsignacion]}
                     /\ reply' = [op |-> "create_vehiculo_reservacion", status |-> 201]
                     /\ UNCHANGED Reservaciones
    /\ ReservaFrame

\* PUT /vehiculosreservaciones/{id_vehiculo}/{id_reservacion}; "None": field not set
update_vehiculo_reservacion(id_vehiculo, id_reservacion, EstadoAsignacion) ==
    /\ IF AsignacionesOf(id_vehiculo, id_reservacion) = {}
       THEN Refuse("update_vehiculo_reservacion", 404)
       ELSE /\ VehiculosReservaciones' =
                   IF EstadoAsignacion = "None" THEN VehiculosReservaciones
                   ELSE (VehiculosReservaciones \ AsignacionesOf(id_vehiculo, id_reservacion))
                            \cup {[IdVehiculo |-> id_vehiculo,
                                   IdReservacion |-> id_reservacion,
                                   EstadoAsignacion |-> EstadoAsignacion]}
            /\ reply' = [op |-> "update_vehiculo_reservacion", status |-> 200]
            /\ UNCHANGED Reservaciones
    /\ ReservaFrame

\* DELETE /vehiculosreservaciones/{id_vehiculo}/{id_reservacion}
delete_vehiculo_reservacion(id_vehiculo, id_reservacion) ==
    /\ IF AsignacionesOf(id_vehiculo, id_reservacion) = {}
       THEN Refuse("delete_vehiculo_reservacion", 404)
       ELSE /\ VehiculosReservaciones' =
                   VehiculosReservaciones \ AsignacionesOf(id_vehiculo, id_reservacion)
            /\ reply' = [op |-> "delete_vehiculo_reservacion", status |-> 200]
            /\ UNCHANGED Reservaciones
    /\ ReservaFrame

\* the ReservacionUpdate bodies of the model: at most one of the dates and the state
ReservacionUpdates ==
    {[FechaInicio |-> 0, FechaFin |-> 0, Estado |-> e] :
        e \in {"None", "Pendiente", "Aprobada", "Denegada"}}
    \cup {[FechaInicio |-> d, FechaFin |-> 0, Estado |-> "None"] : d \in Dates}
    \cup {[FechaInicio |-> 0, FechaFin |-> MaxDate, Estado |-> "None"]}

\* PUT /reservaciones/{reservacion_id}?id_usuario_modificacion=...; the reservations
\* of the model are personal ones, so the final validation of the owner passes
update_reservacion(reservacion_id, reservacion, id_usuario_modificacion) ==
    /\ IF ReservacionesWithId(reservacion_id) = {}
       THEN Refuse("update_reservacion", 404)
       ELSE LET db_reservacion == CHOOSE x \in ReservacionesWithId(reservacion_id) : TRUE
            IN  IF /\ reservacion.Estado # "None"
                   /\ reservacion.Estado # db_reservacion.Estado
                   /\ ~verificar_permisos_usuario(id_usuario_modificacion)
                THEN Refuse("update_reservacion", 403)
                ELSE IF id_usuario_modificacion \notin {u.IdUsuario : u \in Usuarios}
                THEN Refuse("update_reservacion", 404)
                ELSE /\ Reservaciones' =
                            (Reservaciones \ {db_reservacion}) \cup
                            {[IdReservacion |-> reservacion_id,
                              FechaInicio |->
                                  IF reservacion.FechaInicio = 0
                                  THEN db_reservacion.FechaInicio
                                  ELSE reservacion.FechaInicio,
                              FechaFin |->
                                  IF reservacion.FechaFin = 0
                                  THEN db_reservacion.FechaFin
                                  ELSE reservacion.FechaFin,
                              Estado |->
                                  IF reservacion.Estado = "None"
                                  THEN db_reservacion.Estado
                                  ELSE reservacion.Estado]}
                     /\ reply' = [op |-> "update_reservacion", status |-> 200]
                     /\ UNCHANGED VehiculosReservaciones
    /\ ReservaFrame

\* the body of aprobar_reservacion and denegar_reservacion, which differ in the
\* state they write
DecideReservacion(op, Estado, reservacion_id, IdUsuarioModificacion) ==
    /\ IF ~verificar_permisos_usuario(IdUsuarioModificacion)
       THEN Refuse(op, 403)
       ELSE IF ReservacionesWithId(reservacion_id) = {}
       THEN Refuse(op, 404)
       ELSE LET db_reservacion == CHOOSE x \in ReservacionesWithId(reservacion_id) : TRUE
            IN  IF db_reservacion.Estado # "Pendiente"
                THEN Refuse(op, 400)
                ELSE /\ Reservaciones' =
                            (Reservaciones \ {db_reservacion})
                                \cup {[db_reservacion EXCEPT !.Estado = Estado]}
                     /\ reply' = [op |-> op, status |-> 200]
                     /\ UNCHANGED VehiculosReservaciones
    /\ ReservaFrame

\* POST /reservaciones/{reservacion_id}/aprobar
aprobar_reservacion(reservacion_id, IdUsuarioModificacion) ==
    DecideReservacion("aprobar_reservacion", "Aprobada", reservacion_id, IdUsuarioModificacion)

\* POST /reservaciones/{reservacion_id}/denegar
denegar_reservacion(reservacion_id, IdUsuarioModificacion) ==
    DecideReservacion("denegar_reservacion", "Denegada", reservacion_id, IdUsuarioModificacion)

\* the two reservations share a day
Overlap(x, y) == x.FechaInicio < y.FechaFin /\ y.FechaInicio < x.FechaFin

\* C28: after any sequence of create_vehiculo_reservacion, update_vehiculo_reservacion,
\* delete_vehiculo_reservacion and update_reservacion calls, no vehicle has two
\* assignments with EstadoAsignacion 'Activa' whose reservations' date ranges overlap.
C28_NoDoubleBooking ==
    \A a \in VehiculosReservaciones, b \in VehiculosReservaciones :
        (/\ a # b
         /\ a.IdVehiculo = b.IdVehiculo
         /\ a.EstadoAsignacion = "Activa"
         /\ b.EstadoAsignacion = "Activa")
            => \A x \in ReservacionesWithId(a.IdReservacion),
                  y \in ReservacionesWithId(b.IdReservacion) : ~Overlap(x, y)

\* C29: a reservation's Estado leaves 'Pendiente' at most once: aprobar_reservacion
\* and denegar_reservacion change it only when it is 'Pendiente' and otherwise answer
\* 400, and once Estado is 'Aprobada' or 'Denegada' no operation changes it again.
C29_DecisionIsFinal ==
    [][/\ \A x \in Reservaciones :
              x.Estado \in {"Aprobada", "Denegada"}
                  => \E y \in Reservaciones' :
                         y.IdReservacion = x.IdReservacion /\ y.Estado = x.Estado
       /\ (reply'.op \in {"aprobar_reservacion", "denegar_reservacion"}
              /\ reply'.status = 400) => Reservaciones' = Reservaciones]_vars


(***************************************************************************)
(* The frame of update_rol_permiso.                                        *)
(***************************************************************************)
\* the rows of a table outside the key (rol_id, permiso_id)
OtherRows(table, rol_id, permiso_id) ==
    {row \in table : ~(row.IdRol = rol_id /\ row.IdPermiso = permiso_id)}

\* C30: update_rol_permiso(rol_id, permiso_id, body) sets exactly the flags that are
\* non-null in the body and leaves the remaining flags of that row and every other
\* RolesPermisos row unchanged; when no row exists for (rol_id, permiso_id) it
\* returns 404, writes nothing and does not clear the cache.
C30_UpdateFrame ==
    [][(nops' = nops + 1 /\ admin'.op \in {"update_rol_permiso", "none"}) =>
       \A rol_id \in RolIdArgs, permiso_id \in PermisoIdArgs, body \in UpdateBodies :
          update_rol_permiso(rol_id, permiso_id, body) =>
              IF RowsOf(rol_id, permiso_id) = {}
              THEN /\ admin'.status = 404
                   /\ admin'.pc = "responded"
                   /\ ~admin'.cleared
                   /\ RolesPermisos' = RolesPermisos
                   /\ PERMISOS_CACHE' = PERMISOS_CACHE
              ELSE /\ admin'.status = 200
                   /\ OtherRows(RolesPermisos', rol_id, permiso_id)
                          = OtherRows(RolesPermisos, rol_id, permiso_id)
                   /\ \A old \in RowsOf(rol_id, permiso_id) :
                          \E new \in RolesPermisos' :
                              /\ RolesPermisos' \ OtherRows(RolesPermisos', rol_id, permiso_id)
                                     = {new}
                              /\ \A c \in Columns :
                                     RowFlags(new)[c] =
                                         IF body[c] = "None" THEN RowFlags(old)[c]
                                         ELSE body[c] = "True"]_vars

\* the call set Crear on the row of (2, 1) and kept its Leer; a decision was cached
C30_Witness ==
    /\ admin.op = "update_rol_permiso"
    /\ admin.pc = "committed"
    /\ admin.wrote
    /\ RowsOf(2, 1) = {Row(2, 1, Flags(TRUE, FALSE, TRUE, FALSE))}
    /\ PERMISOS_CACHE # << >>


(***************************************************************************)
(* Initial values of the state outside the authorization core.             *)
(***************************************************************************)
InitSide ==
    /\ upsert = [w \in Workers |-> UpsertIdle]
    /\ issued = NoIssued
    /\ Reservaciones = InitReservaciones
    /\ VehiculosReservaciones = {}
    /\ reply = NoReply

(***************************************************************************)
(* The controller-name resolver on its own.                                *)
(***************************************************************************)
Resolve ==
    /\ ~out.done
    /\ out' = [done |-> TRUE, dispatch |-> DispatchVariants(Lower(seg)),
               check |-> CheckVariants(seg)]
    /\ UNCHANGED <<dbVars, PERMISOS_CACHE, admin, nops, resp, look, histVars, seg, pair, sideVars>>

\* the list the two resolvers are to produce for a lowercased segment
ExpectedVariants(s) ==
    LET n == Len(s)
        es == n >= 2 /\ s[n - 1] = "e" /\ s[n] = "s"
        sOnly == n >= 1 /\ s[n] = "s" /\ ~es
    IN  CASE es -> <<s, SubSeq(s, 1, n - 2)>>
          [] sOnly -> <<s, SubSeq(s, 1, n - 1)>>
          [] OTHER -> <<s, Append(s, "s"), Append(Append(s, "e"), "s")>>

\* C10: for a lowercased first path segment s the ordered variant list is [s, s[:-2]]
\* when s ends in "es", [s, s[:-1]] when s ends in "s" but not "es", and
\* [s, s+"s", s+"es"] otherwise; dispatch and check_permission build the same list.
C10_VariantList ==
    (out.done /\ seg = Lower(seg)) =>
        /\ out.dispatch = ExpectedVariants(seg)
        /\ out.check = ExpectedVariants(seg)
        /\ out.dispatch = out.check

C10_Witness ==
    /\ out.done
    /\ seg = <<"v", "e", "s">>
    /\ out.check = <<seg, <<"v">>>>

(***************************************************************************)
(* The resolver against a catalog: step 2 of dispatch for the singular and *)
(* the plural path of one resource whose Permisos row has one of the forms.*)
(***************************************************************************)
NoPair == [done |-> FALSE, plural |-> << >>, singular_id |-> 0, plural_id |-> 0]

\* the IdPermiso the variant loop of dispatch ends with for a first segment, 0 when
\* permission_found stays False
ResolvedIds(segment) ==
    LET controller_variants == DispatchVariants(Lower(segment))
        k == FirstMatch(controller_variants)
    IN  IF k = 0 THEN {0} ELSE PermisoIdsNamed(controller_variants[k])

\* a request on /<seg> and one on /<plural> go through the variant loop
ResolvePair ==
    /\ ~pair.done
    /\ \E a \in ResolvedIds(seg), b \in ResolvedIds(pair.plural) :
           pair' = [pair EXCEPT !.done = TRUE, !.singular_id = a, !.plural_id = b]
    /\ UNCHANGED <<dbVars, PERMISOS_CACHE, admin, nops, resp, look, histVars, seg, out, sideVars>>

\* C11: when the catalog names a resource in one form (singular n, or plural n+"s" or
\* n+"es"), the path with the singular first segment and the path with the plural
\* first segment both resolve, and to the same Permisos row.
C11_SingularPluralSameRow ==
    pair.done =>
        /\ pair.singular_id # 0
        /\ pair.plural_id # 0
        /\ pair.singular_id = pair.plural_id

\* one resource n, its plural, and a catalog whose only row names one of the two
InitCatalog ==
    /\ seg \in {s \in StrsUpTo(MaxLen) : s # << >> /\ s = Lower(s)}
    /\ pair \in {[NoPair EXCEPT !.plural = p] : p \in {seg \o <<"s">>, seg \o <<"e", "s">>}}
    /\ Permisos \in {{[IdPermiso |-> 1, NombrePermiso |-> form]} : form \in {seg, pair.plural}}
    /\ Roles = {[IdRol |-> 1, NombreRol |-> "Admin"], [IdRol |-> 2, NombreRol |-> "Empleado"]}
    /\ RolesPermisos = {Row(2, 1, Flags(FALSE, FALSE, TRUE, FALSE))}
    /\ permisoSeq = 1
    /\ rolSeq = 2
    /\ Usuarios = {[IdUsuario |-> 1, Activo |-> TRUE], [IdUsuario |-> 2, Activo |-> TRUE]}
    /\ InitSide
    /\ PERMISOS_CACHE = << >>
    /\ admin = Idle
    /\ nops = 0
    /\ resp = NoResp
    /\ look = [p \in Procs |-> LookIdle]
    /\ fresh = TRUE
    /\ now = 0
    /\ cachedAt = << >>
    /\ revoked = {}
    /\ out = [done |-> FALSE, dispatch |-> << >>, check |-> << >>]

\* the variant loop on every resource name up to MaxLen
SpecCatalog == InitCatalog /\ [][ResolvePair]_vars

(***************************************************************************)
(* Specifications.                                                         *)
(***************************************************************************)
InitTables ==
    /\ Roles = {[IdRol |-> 1, NombreRol |-> "Admin"], [IdRol |-> 2, NombreRol |-> "Empleado"]}
    /\ Permisos = {[IdPermiso |-> 1, NombrePermiso |-> <<"v", "s">>]}
    /\ RolesPermisos = {Row(2, 1, Flags(FALSE, FALSE, TRUE, FALSE))}
    /\ permisoSeq = 1
    /\ rolSeq = 2
    /\ Usuarios = {[IdUsuario |-> 1, Activo |-> TRUE], [IdUsuario |-> 2, Activo |-> TRUE]}

\* nothing cached, nothing in flight
InitIdle ==
    /\ PERMISOS_CACHE = << >>
    /\ admin = Idle
    /\ nops = 0
    /\ resp = NoResp
    /\ look = [p \in Procs |-> LookIdle]
    /\ fresh = TRUE
    /\ now = 0
    /\ cachedAt = << >>
    /\ revoked = {}
    /\ seg = << >>
    /\ out = [done |-> FALSE, dispatch |-> << >>, check |-> << >>]
    /\ pair = NoPair

InitCore == InitTables /\ InitIdle

Init == InitCore /\ InitSide

InitResolver ==
    /\ InitTables
    /\ PERMISOS_CACHE = << >>
    /\ admin = Idle
    /\ nops = 0
    /\ resp = NoResp
    /\ look = [p \in Procs |-> LookIdle]
    /\ fresh = TRUE
    /\ now = 0
    /\ cachedAt = << >>
    /\ revoked = {}
    /\ seg \in StrsUpTo(MaxLen)
    /\ out = [done |-> FALSE, dispatch |-> << >>, check |-> << >>]
    /\ pair = NoPair
    /\ InitSide

AdminNext ==
    \/ \E r \in RolIdArgs, q \in PermisoIdArgs, b \in BodyFlags :
           create_or_update_rol_permiso(r, q, b)
    \/ \E r \in RolIdArgs, q \in PermisoIdArgs, b \in UpdateBodies :
           update_rol_permiso(r, q, b)
    \/ \E r \in RolIdArgs, q \in PermisoIdArgs : delete_rol_permiso(r, q)
    \/ \E r \in RolIdArgs, q \in PermisoIdArgs : add_permiso_to_rol(r, q)
    \/ \E r \in RolIdArgs, q \in PermisoIdArgs : remove_permiso_from_rol(r, q)
    \/ \E r \in RolIdArgs, u \in BOOLEAN : delete_rol(r, u)
    \/ \E n \in PermisoNames : create_permiso(n)
    \/ \E q \in PermisoIdArgs : delete_permiso(q)
    \/ \E r \in {"Admin", "Empleado"} : limpiar_cache_permisos(r)
    \/ AdminClear
    \/ AdminRespond

GateNext ==
    \/ \E req \in Requests : Dispatch(req)
    \/ Deliver

LookNext ==
    \E p \in Procs :
        \/ \E r \in LookRoles, c \in LookControllers, m \in LookMethods : Call(p, r, c, m)
        \/ Scan(p)
        \/ Hit(p)
        \/ DbQuery(p)
        \/ DbError(p)
        \/ Store1(p)
        \/ Store2(p)
        \/ Ret(p)
        \/ Return(p)

\* the gate and the administrative handlers
NextGate == AdminNext \/ GateNext
SpecGate == Init /\ [][NextGate]_vars

\* the cached lookup and the administrative handlers
NextLookup == AdminNext \/ LookNext
SpecLookup == Init /\ [][NextLookup]_vars

\* the cached lookup, the cache clear and the clock
NextTTL == LookNext \/ Tick \/ (\E r \in {"Admin"} : limpiar_cache_permisos(r))
               \/ AdminClear \/ AdminRespond
SpecTTL == Init /\ [][NextTTL]_vars

UsersNext ==
    \/ \E depends_on_user \in BOOLEAN : Handle(depends_on_user)
    \/ \E u \in UserIds, c \in UserIds : desactivar_usuario(u, c)
    \/ \E u \in UserIds, c \in UserIds : activar_usuario(u, c)
    \/ \E u \in UserIds, c \in UserIds : delete_usuario(u, c)

\* the gate, the routes behind it and the user accounts
NextUsers == GateNext \/ UsersNext
SpecUsers == Init /\ [][NextUsers]_vars

\* the resolver on every segment up to MaxLen
SpecResolver == InitResolver /\ [][Resolve]_vars

RolesNext ==
    \/ \E n \in RolNameArgs : create_rol(n)
    \/ \E r \in RolIdArgs, n \in RolNameArgs \cup {"None"} : update_rol(r, n)
    \/ \E r \in RolIdArgs, u \in BOOLEAN : delete_rol(r, u)
    \/ AdminRespond

\* the role handlers
SpecRoles == Init /\ [][RolesNext]_vars

UpsertNext ==
    \/ \E w \in Workers, r \in RolIdArgs, q \in PermisoIdArgs, b \in UpsertBodies :
           upsert_select(w, r, q, b)
    \/ \E w \in Workers, r \in RolIdArgs, q \in PermisoIdArgs : add_select(w, r, q)
    \/ \E w \in Workers : upsert_write(w)
    \/ \E w \in Workers : upsert_return(w)
    \/ \E r \in RolIdArgs, q \in PermisoIdArgs, b \in UpdateBodies :
           update_rol_permiso(r, q, b)
    \/ \E r \in RolIdArgs, q \in PermisoIdArgs : delete_rol_permiso(r, q)
    \/ AdminClear
    \/ AdminRespond

\* two workers that write RolesPermisos, and the handlers that update and delete
SpecUpsert == Init /\ [][UpsertNext]_vars

\* the cached lookup alone: no handler writes the matrix
InitCache == CacheTables /\ InitIdle /\ InitSide

SpecCache == InitCache /\ [][LookNext]_vars

TokensNext ==
    \/ \E r \in RolIdArgs : login_user(r)
    \/ \E r \in RolIdArgs : get_token(r)
    \/ DispatchIssued
    \/ Deliver

\* the two token endpoints and the gate
InitTokens == TokenTables /\ InitIdle /\ InitSide

SpecTokens == InitTokens /\ [][TokensNext]_vars

ReservasNext ==
    \/ \E v \in VehiculoArgs, r \in ReservacionArgs, e \in {"Activa", "Inactiva"} :
           create_vehiculo_reservacion(v, r, e)
    \/ \E v \in VehiculoArgs, r \in ReservacionArgs, e \in {"None", "Activa", "Inactiva"} :
           update_vehiculo_reservacion(v, r, e)
    \/ \E v \in VehiculoArgs, r \in ReservacionArgs : delete_vehiculo_reservacion(v, r)
    \/ \E r \in ReservacionArgs, b \in ReservacionUpdates, u \in {1, 2, 3} :
           update_reservacion(r, b, u)
    \/ \E r \in ReservacionArgs, u \in {1, 2, 3} : aprobar_reservacion(r, u)
    \/ \E r \in ReservacionArgs, u \in {1, 2, 3} : denegar_reservacion(r, u)

\* the reservation handlers
SpecReservas == Init /\ [][ReservasNext]_vars

UpdateNext ==
    \/ \E r \in RolIdArgs, q \in PermisoIdArgs, b \in UpdateBodies :
           update_rol_permiso(r, q, b)
    \/ AdminClear
    \/ AdminRespond
    \/ LookNext

\* update_rol_permiso beside the cached lookup
SpecUpdate == Init /\ [][UpdateNext]_vars

====
